---- MODULE Spec2Model ----
(***************************************************************************)
(* Model of Sm_Prediction.cpp: class SocialNetwork (an undirected social   *)
(* graph with three friend-recommendation queries) and the driver          *)
(* demonstrateSocialNetwork()/main() that feeds it from standard input.    *)
(*                                                                         *)
(* The graph is std::unordered_map<int, std::unordered_set<int>>: a        *)
(* function from the known user ids to their neighbour sets.  The member   *)
(* functions are operators over a graph value; every call is an action     *)
(* that records the call and what it returned in the variable ret.         *)
(***************************************************************************)
EXTENDS Integers, Sequences, FiniteSets, TLC

\* Largest identifier the free client of the class uses (ids are 0..MaxId).
MaxId == 2

\* Largest maxDistance argument the free client passes and the driver reads.
MaxDist == 2

\* std::numeric_limits<int>::max(), the "no path" value of getNetworkDistance.
INT_MAX == 2147483647

Ids == 0..MaxId

MaxDistances == (0 - 1)..MaxDist

VARIABLES
    graph,   \* SocialNetwork::graph
    ret,     \* the last call on the engine: its name, arguments and outcome
    pc,      \* "api": a free client of the class; otherwise the driver's position
    input,   \* what the driver reads from std::cin: users, maxDistance, connections
    i        \* the driver's loop counter

vars == <<graph, ret, pc, input, i>>

(***************************************************************************)
(* SocialNetwork: mutation operations and direct queries                   *)
(***************************************************************************)

\* The empty std::unordered_map of a freshly constructed SocialNetwork.
EmptyGraph == [u \in {} |-> {}]

\* graph.find(userId) != graph.end()
known(g, userId) == userId \in DOMAIN g

addUser(g, userId) ==
    IF ~known(g, userId) THEN (userId :> {}) @@ g ELSE g

\* graph[key]: std::unordered_map::operator[] inserts an empty set for an
\* absent key before it hands out the reference.
subscript(g, key) == IF known(g, key) THEN g ELSE (key :> {}) @@ g

\* graph[key].insert(value)
insertAt(g, key, value) ==
    [subscript(g, key) EXCEPT ![key] = @ \cup {value}]

\* graph[key].erase(value)
eraseAt(g, key, value) ==
    [subscript(g, key) EXCEPT ![key] = @ \ {value}]

\* A plausible slip: only the first direction of the connection is stored.
addConnectionOneWay(g, userId1, userId2) ==
    insertAt(addUser(addUser(g, userId1), userId2), userId1, userId2)

addConnection(g, userId1, userId2) ==
    insertAt(insertAt(addUser(addUser(g, userId1), userId2), userId1, userId2),
             userId2, userId1)

\* A plausible slip: the existence test is dropped, so operator[] creates
\* entries for the absent endpoints.
removeConnectionUnguarded(g, userId1, userId2) ==
    eraseAt(eraseAt(g, userId1, userId2), userId2, userId1)

removeConnection(g, userId1, userId2) ==
    IF known(g, userId1) /\ known(g, userId2)
    THEN eraseAt(eraseAt(g, userId1, userId2), userId2, userId1)
    ELSE g

getFriends(g, userId) == IF known(g, userId) THEN g[userId] ELSE {}

getTotalUsers(g) == Cardinality(DOMAIN g)

(***************************************************************************)
(* Result vectors.  A recommendation is a pair <<candidate, value>>; the   *)
(* unordered_map that collects them is a set of pairs with distinct        *)
(* candidates.  Copying it into a vector walks the map in an unspecified   *)
(* order and std::sort is not stable, so the call may return any           *)
(* arrangement of the pairs that the comparator leaves sorted.             *)
(***************************************************************************)

\* A plausible slip: the comparison is written the wrong way round.
byCountAscending(a, b) == a[2] < b[2]

\* The comparator of recommendByCommonFriends: a.second > b.second
byCountDescending(a, b) == a[2] > b[2]

\* The comparator of recommendByNetworkDistance: a.second < b.second
byDistanceAscending(a, b) == a[2] < b[2]

\* The comparator of advancedRecommendation: a.second > b.second
byScoreDescending(a, b) == a[2] > b[2]

\* Every vector holding each pair of the map exactly once.
vectorsOf(map) ==
    LET n == Cardinality(map)
    IN  {s \in [1..n -> map] : \A j, k \in 1..n : s[j] = s[k] => j = k}

\* std::sort(recommendations.begin(), recommendations.end(), comp) leaves a
\* vector in which no element is ordered before an earlier one.

\* The sort of recommendByCommonFriends.
sortedByCount(map) ==
    {s \in vectorsOf(map) :
        \A j, k \in 1..Len(s) : j < k => ~byCountDescending(s[k], s[j])}

\* The sort of recommendByNetworkDistance.
sortedByDistance(map) ==
    {s \in vectorsOf(map) :
        \A j, k \in 1..Len(s) : j < k => ~byDistanceAscending(s[k], s[j])}

\* The sort of advancedRecommendation.
sortedByScore(map) ==
    {s \in vectorsOf(map) :
        \A j, k \in 1..Len(s) : j < k => ~byScoreDescending(s[k], s[j])}

\* The elements of a set in ascending order: the order in which the model
\* walks an unordered_set (the walks below do not depend on it).
walk(S) ==
    [j \in 1..Cardinality(S) |->
        CHOOSE x \in S : Cardinality({y \in S : y < x}) = j - 1]

(***************************************************************************)
(* Method 1: recommendByCommonFriends                                      *)
(***************************************************************************)

\* A plausible slip: only the user itself is skipped, not its friends.
skipOnlySelf(userId, userFriends, friendOfFriend) == friendOfFriend = userId

\* friendOfFriend == userId || userFriends.count(friendOfFriend)
skipCandidate(userId, userFriends, friendOfFriend) ==
    friendOfFriend = userId \/ friendOfFriend \in userFriends

\* The passes of the two nested loops that reach the loop body's end:
\* <<currentFriend, friendOfFriend>> with the candidate not skipped.
encounters(g, userId) ==
    LET userFriends == getFriends(g, userId)
    IN  {e \in UNION {{<<f, fof>> : fof \in getFriends(g, f)} : f \in userFriends} :
            ~skipCandidate(userId, userFriends, e[2])}

\* potentialFriends after the loops: potentialFriends[friendOfFriend]++ ran
\* once per encounter.
potentialFriends(g, userId) ==
    LET enc == encounters(g, userId)
    IN  {<<c, Cardinality({e \in enc : e[2] = c})>> : c \in {e[2] : e \in enc}}

recommendByCommonFriends(g, userId) ==
    sortedByCount(potentialFriends(g, userId))

(***************************************************************************)
(* Method 2: recommendByNetworkDistance                                    *)
(*                                                                         *)
(* The traversal state is the std::queue of <<user, distance>> pairs, the  *)
(* visited set and the distances map; thrown is set when graph.at(userId)  *)
(* is evaluated for a userId the graph does not hold (std::out_of_range).  *)
(***************************************************************************)

\* A plausible slip: the start node is entered into the distances map.
startDistancesWithSelf(userId) == {<<userId, 0>>}

\* std::unordered_map<int, int> distances;
startDistances(userId) == {}

\* queue.push({userId, 0}); visited.insert(userId);
startTraversal(userId) ==
    [queue |-> <<<<userId, 0>>>>, visited |-> {userId},
     distances |-> startDistances(userId), thrown |-> FALSE]

\* A plausible slip: the traversal stops one level early.
exceededEarly(currentDistance, maxDistance) == currentDistance + 1 >= maxDistance

\* if (currentDistance > maxDistance) break;
exceeded(currentDistance, maxDistance) == currentDistance > maxDistance

\* The for loop over getFriends(currentUser).  A neighbour already visited
\* is passed over; each other one is marked, queued one hop further and,
\* unless it is the user or a direct friend, entered into distances.  The
\* test graph.at(userId) runs for every new neighbour other than userId.
expandDistance(g, userId, st, currentUser, currentDistance) ==
    LET fresh == getFriends(g, currentUser) \ st.visited
        looked == {n \in fresh : n /= userId}
    IN  IF looked /= {} /\ ~known(g, userId)
        THEN [st EXCEPT !.thrown = TRUE]
        ELSE [queue |-> st.queue \o [j \in 1..Cardinality(fresh) |->
                                        <<walk(fresh)[j], currentDistance + 1>>],
              visited |-> st.visited \cup fresh,
              distances |-> st.distances \cup
                  {<<n, currentDistance + 1>> : n \in {m \in looked : m \notin g[userId]}},
              thrown |-> FALSE]

\* while (!queue.empty()) { front; pop; break past the bound; expand }
RECURSIVE distanceLoop(_, _, _, _)
distanceLoop(g, userId, maxDistance, st) ==
    IF st.thrown \/ st.queue = <<>> THEN st
    ELSE LET currentUser == Head(st.queue)[1]
             currentDistance == Head(st.queue)[2]
             popped == [st EXCEPT !.queue = Tail(st.queue)]
         IN  IF exceeded(currentDistance, maxDistance) THEN popped
             ELSE distanceLoop(g, userId, maxDistance,
                      expandDistance(g, userId, popped, currentUser, currentDistance))

\* The outcome of the call: the sorted vectors it may return, or the
\* exception that leaves it.
recommendByNetworkDistance(g, userId, maxDistance) ==
    LET st == distanceLoop(g, userId, maxDistance, startTraversal(userId))
    IN  IF st.thrown
        THEN [outcome |-> "out_of_range", vals |-> {<<>>}]
        ELSE [outcome |-> "returned", vals |-> sortedByDistance(st.distances)]

(***************************************************************************)
(* Helper: getNetworkDistance                                              *)
(***************************************************************************)

\* for (neighbor : getFriends(currentUser)) if unvisited: mark and queue.
expandPath(g, st, currentUser, distance) ==
    LET fresh == getFriends(g, currentUser) \ st.visited
    IN  [queue |-> st.queue \o [j \in 1..Cardinality(fresh) |->
                                   <<walk(fresh)[j], distance + 1>>],
         visited |-> st.visited \cup fresh]

\* A plausible slip: the hop count of the node's parent is returned.
foundAtParent(distance) == IF distance > 0 THEN distance - 1 ELSE 0

\* if (currentUser == userId2) return distance;
foundAt(distance) == distance

RECURSIVE pathLoop(_, _, _)
pathLoop(g, userId2, st) ==
    IF st.queue = <<>> THEN INT_MAX
    ELSE LET currentUser == Head(st.queue)[1]
             distance == Head(st.queue)[2]
             popped == [st EXCEPT !.queue = Tail(st.queue)]
         IN  IF currentUser = userId2 THEN foundAt(distance)
             ELSE pathLoop(g, userId2, expandPath(g, popped, currentUser, distance))

getNetworkDistance(g, userId1, userId2) ==
    pathLoop(g, userId2, [queue |-> <<<<userId1, 0>>>>, visited |-> {userId1}])

(***************************************************************************)
(* IEEE-754 binary64 arithmetic, as far as advancedRecommendation uses it. *)
(*                                                                         *)
(* A non-negative double is held exactly as a multiple of 2^-55 in three   *)
(* limbs: value = ip + hi / 2^28 + lo / 2^55.  A double in [2^e, 2^(e+1))  *)
(* is a multiple of 2^(e-52), so every double in [1/8, 2^24) is such a     *)
(* multiple.  An operation computes the exact result and rounds it to the  *)
(* nearest double, ties to even, as the hardware does.                     *)
(***************************************************************************)

RECURSIVE log2(_)
log2(n) == IF n < 2 THEN 0 ELSE 1 + log2(n \div 2)

\* Carries between the limbs.
carry(ip, hi, lo) ==
    LET h == hi + lo \div 2^27
    IN  [ip |-> ip + h \div 2^28, hi |-> h % 2^28, lo |-> lo % 2^27]

\* The spacing of the doubles around x, in units of 2^-55.
ulp(x) ==
    IF x.ip > 0 THEN 2^(log2(x.ip) + 3)
    ELSE IF x.hi >= 2^25 THEN 2^(log2(x.hi) - 25)
    ELSE 1

\* Round to nearest, ties to even.  x is the exact value cut down to a
\* multiple of 2^-55 and rest says what was cut: 0 nothing, 1 less than
\* half a unit, 2 half a unit, 3 more than half a unit.
roundToDouble(x, rest) ==
    LET u == ulp(x)
        rem == x.lo % u
        half == u \div 2
        above == IF u = 1 THEN rest = 3
                 ELSE rem > half \/ (rem = half /\ rest > 0)
        tie == IF u = 1 THEN rest = 2 ELSE rem = half /\ rest = 0
        odd == (x.lo \div u) % 2 = 1
    IN  IF above \/ (tie /\ odd)
        THEN carry(x.ip, x.hi, x.lo - rem + u)
        ELSE [x EXCEPT !.lo = x.lo - rem]

\* The conversion of an int to double (exact below 2^24).
dblOfInt(n) == [ip |-> n, hi |-> 0, lo |-> 0]

\* x + y
dblAdd(x, y) ==
    roundToDouble(carry(x.ip + y.ip, x.hi + y.hi, x.lo + y.lo), 0)

\* 1.0 / n for an int n >= 1: the quotient by long division over the limbs,
\* then rounded.  The result is the double exactly for n <= 8 and within
\* 2^-56 of it for larger n.
dblRecip(n) ==
    LET r1 == 2^28 % n
        q2 == (r1 * 2^13) \div n
        r2 == (r1 * 2^13) % n
        q3 == (r2 * 2^14) \div n
        r3 == (r2 * 2^14) % n
        rest == IF r3 = 0 THEN 0
                ELSE IF 2 * r3 < n THEN 1
                ELSE IF 2 * r3 = n THEN 2 ELSE 3
    IN  roundToDouble(carry(0, 2^28 \div n, q2 * 2^14 + q3), rest)

\* static_cast<int>(x): truncation toward zero.
toInt(x) == x.ip

(***************************************************************************)
(* Advanced recommendation with weighted scoring                           *)
(***************************************************************************)

\* The inner loop over userFriends: those that getFriends(friendOfFriend) holds.
commonFriends(g, userId, friendOfFriend) ==
    Cardinality({commonFriend \in getFriends(g, userId) :
                    commonFriend \in getFriends(g, friendOfFriend)})

\* (commonFriends * 2) + (1.0 / (networkDistance + 1))
score(common, networkDistance) ==
    dblAdd(dblOfInt(common * 2), dblRecip(networkDistance + 1))

\* recommendationScores[friendOfFriend] += score, once per encounter of the
\* candidate.  Every encounter of one candidate computes the same score.
\* The limbs hold a double exactly only below 2^24; a total that reaches it
\* is carried no further.
RECURSIVE accumulate(_, _, _)
accumulate(total, s, times) ==
    IF times = 0 \/ toInt(total) >= 2^24 THEN total
    ELSE accumulate(dblAdd(total, s), s, times - 1)

\* What the loop body computes for a candidate: its commonFriends and its
\* networkDistance, and the number of encounters that add its score.
factors(g, userId) ==
    LET enc == encounters(g, userId)
    IN  {<<c, commonFriends(g, userId, c), getNetworkDistance(g, userId, c),
           Cardinality({e \in enc : e[2] = c})>> : c \in {e[2] : e \in enc}}

\* recommendationScores after the loops, each score cast to int as it is
\* copied into the vector.
recommendationScores(g, userId) ==
    {<<f[1], toInt(accumulate(dblOfInt(0), score(f[2], f[3]), f[4]))>> :
        f \in factors(g, userId)}

\* networkDistance + 1 overflows int when getNetworkDistance found no path:
\* undefined behaviour, after which the call may do anything.
advancedRecommendation(g, userId, maxDistance) ==
    IF \E f \in factors(g, userId) : f[3] = INT_MAX
    THEN [outcome |-> "undefined", vals |-> {<<>>}]
    ELSE [outcome |-> "returned",
          vals |-> sortedByScore(recommendationScores(g, userId))]

(***************************************************************************)
(* Calls on the engine.  ret records the last call: its name, its          *)
(* arguments a and b, how it ended (outcome), what it returned (val) and   *)
(* the graph it was made on (pre).                                         *)
(***************************************************************************)

NoCall ==
    [op |-> "none", a |-> 0, b |-> 0, outcome |-> "returned", val |-> <<>>,
     pre |-> EmptyGraph]

call(op, a, b, outcome, val) ==
    [op |-> op, a |-> a, b |-> b, outcome |-> outcome, val |-> val, pre |-> graph]

\* A client that holds the engine and calls its member functions in any
\* order; it drops each result before its next call.
Idle == pc = "api" /\ ret.op = "none"

AddUser(userId) ==
    /\ Idle
    /\ graph' = addUser(graph, userId)
    /\ ret' = call("addUser", userId, 0, "returned", <<>>)
    /\ UNCHANGED <<pc, input, i>>

AddConnection(userId1, userId2) ==
    /\ Idle
    /\ graph' = addConnection(graph, userId1, userId2)
    /\ ret' = call("addConnection", userId1, userId2, "returned", <<>>)
    /\ UNCHANGED <<pc, input, i>>

RemoveConnection(userId1, userId2) ==
    /\ Idle
    /\ graph' = removeConnection(graph, userId1, userId2)
    /\ ret' = call("removeConnection", userId1, userId2, "returned", <<>>)
    /\ UNCHANGED <<pc, input, i>>

GetFriends(userId) ==
    /\ Idle
    /\ ret' = call("getFriends", userId, 0, "returned", getFriends(graph, userId))
    /\ UNCHANGED <<graph, pc, input, i>>

GetTotalUsers ==
    /\ Idle
    /\ ret' = call("getTotalUsers", 0, 0, "returned", getTotalUsers(graph))
    /\ UNCHANGED <<graph, pc, input, i>>

RecommendByCommonFriends(userId) ==
    /\ Idle
    /\ \E v \in recommendByCommonFriends(graph, userId) :
           ret' = call("recommendByCommonFriends", userId, 0, "returned", v)
    /\ UNCHANGED <<graph, pc, input, i>>

RecommendByNetworkDistance(userId, maxDistance) ==
    /\ Idle
    /\ LET r == recommendByNetworkDistance(graph, userId, maxDistance)
       IN  \E v \in r.vals :
               ret' = call("recommendByNetworkDistance", userId, maxDistance,
                           r.outcome, v)
    /\ UNCHANGED <<graph, pc, input, i>>

AdvancedRecommendation(userId, maxDistance) ==
    /\ Idle
    /\ LET r == advancedRecommendation(graph, userId, maxDistance)
       IN  \E v \in r.vals :
               ret' = call("advancedRecommendation", userId, maxDistance,
                           r.outcome, v)
    /\ UNCHANGED <<graph, pc, input, i>>

GetNetworkDistance(userId1, userId2) ==
    /\ Idle
    /\ ret' = call("getNetworkDistance", userId1, userId2, "returned",
                   getNetworkDistance(graph, userId1, userId2))
    /\ UNCHANGED <<graph, pc, input, i>>

Discard ==
    /\ pc = "api"
    /\ ret.op /= "none"
    /\ ret' = NoCall
    /\ UNCHANGED <<graph, pc, input, i>>

(***************************************************************************)
(* The driver: demonstrateSocialNetwork() called from main().  input is    *)
(* what it reads from std::cin: the number of users, maxDistance and the   *)
(* list of connections.                                                    *)
(***************************************************************************)

\* The connections of the example the source keeps in its comments.
sourceConnections ==
    <<<<1, 2>>, <<1, 3>>, <<2, 4>>, <<3, 4>>, <<3, 5>>, <<4, 5>>, <<4, 6>>>>

\* A chain of four users.
chainConnections == <<<<1, 2>>, <<2, 3>>, <<3, 4>>>>

\* User 1 with the fifteen friends 2..16, each of them a friend of user 17.
starConnections ==
    [j \in 1..30 |-> IF j % 2 = 1 THEN <<1, (j + 1) \div 2 + 1>>
                     ELSE <<j \div 2 + 1, 17>>]

Inputs ==
    {[users |-> 6, maxDistance |-> m, connections |-> sourceConnections] :
        m \in MaxDistances}
    \cup {[users |-> 4, maxDistance |-> m, connections |-> chainConnections] :
            m \in MaxDistances}
    \cup {[users |-> 1, maxDistance |-> m, connections |-> starConnections] :
            m \in MaxDistances}
    \cup [users : 0..2, maxDistance : MaxDistances,
          connections : {<<>>} \cup {<<c>> : c \in Ids \X Ids}]

NoInput == [users |-> 0, maxDistance |-> 0, connections |-> <<>>]

\* for (i = 0; i < users; i++) socialNetwork.addUser(i);
DemoAddUser ==
    /\ pc = "addUsers"
    /\ i < input.users
    /\ graph' = addUser(graph, i)
    /\ ret' = call("addUser", i, 0, "returned", <<>>)
    /\ i' = i + 1
    /\ UNCHANGED <<pc, input>>

DemoUsersAdded ==
    /\ pc = "addUsers"
    /\ ~(i < input.users)
    /\ pc' = "addConnections"
    /\ i' = 0
    /\ UNCHANGED <<graph, ret, input>>

\* for (i = 0; i < connections; i++) { cin >> a >> b; addConnection(a, b); }
DemoAddConnection ==
    /\ pc = "addConnections"
    /\ i < Len(input.connections)
    /\ LET a == input.connections[i + 1][1]
           b == input.connections[i + 1][2]
       IN  /\ graph' = addConnection(graph, a, b)
           /\ ret' = call("addConnection", a, b, "returned", <<>>)
    /\ i' = i + 1
    /\ UNCHANGED <<pc, input>>

\* printNetwork(), then the loop for (i = 1; i <= users; i++) starts.
DemoConnectionsAdded ==
    /\ pc = "addConnections"
    /\ ~(i < Len(input.connections))
    /\ pc' = "byCommonFriends"
    /\ i' = 1
    /\ UNCHANGED <<graph, ret, input>>

DemoCommonFriends ==
    /\ pc = "byCommonFriends"
    /\ i <= input.users
    /\ \E v \in recommendByCommonFriends(graph, i) :
           ret' = call("recommendByCommonFriends", i, 0, "returned", v)
    /\ pc' = "byNetworkDistance"
    /\ UNCHANGED <<graph, input, i>>

\* An exception leaves demonstrateSocialNetwork and is caught in main.
DemoNetworkDistance ==
    /\ pc = "byNetworkDistance"
    /\ LET r == recommendByNetworkDistance(graph, i, input.maxDistance)
       IN  /\ \E v \in r.vals :
                  ret' = call("recommendByNetworkDistance", i, input.maxDistance,
                              r.outcome, v)
           /\ pc' = IF r.outcome = "returned" THEN "advanced" ELSE "caught"
    /\ UNCHANGED <<graph, input, i>>

DemoAdvanced ==
    /\ pc = "advanced"
    /\ LET r == advancedRecommendation(graph, i, input.maxDistance)
       IN  /\ \E v \in r.vals :
                  ret' = call("advancedRecommendation", i, input.maxDistance,
                              r.outcome, v)
           /\ pc' = IF r.outcome = "returned" THEN "byCommonFriends" ELSE "undefined"
    /\ i' = i + 1
    /\ UNCHANGED <<graph, input>>

DemoDone ==
    /\ pc = "byCommonFriends"
    /\ ~(i <= input.users)
    /\ pc' = "done"
    /\ UNCHANGED <<graph, ret, input, i>>

(***************************************************************************)
(* The specification                                                       *)
(***************************************************************************)

Init ==
    /\ graph = EmptyGraph
    /\ ret = NoCall
    /\ i = 0
    /\ \/ pc = "api" /\ input = NoInput
       \/ pc = "addUsers" /\ input \in Inputs

Next ==
    \/ \E u \in Ids : AddUser(u)
    \/ \E a, b \in Ids : AddConnection(a, b)
    \/ \E a, b \in Ids : RemoveConnection(a, b)
    \/ \E u \in Ids : GetFriends(u)
    \/ GetTotalUsers
    \/ \E u \in Ids : RecommendByCommonFriends(u)
    \/ \E u \in Ids, m \in MaxDistances : RecommendByNetworkDistance(u, m)
    \/ \E u \in Ids, m \in MaxDistances : AdvancedRecommendation(u, m)
    \/ \E a, b \in Ids : GetNetworkDistance(a, b)
    \/ Discard
    \/ DemoAddUser
    \/ DemoUsersAdded
    \/ DemoAddConnection
    \/ DemoConnectionsAdded
    \/ DemoCommonFriends
    \/ DemoNetworkDistance
    \/ DemoAdvanced
    \/ DemoDone

Spec == Init /\ [][Next]_vars

(***************************************************************************)
(* Graph-theoretic notions the properties are stated with.  They are       *)
(* defined on the neighbour sets alone, without the traversals above.      *)
(***************************************************************************)

\* The users within n hops of a.
RECURSIVE Within(_, _, _)
Within(g, a, n) ==
    IF n = 0 THEN {a}
    ELSE LET W == Within(g, a, n - 1)
         IN  W \cup UNION {getFriends(g, w) : w \in W}

\* The users joined to a user of W by a path.
RECURSIVE Component(_, _)
Component(g, W) ==
    LET next == W \cup UNION {getFriends(g, w) : w \in W}
    IN  IF next = W THEN W ELSE Component(g, next)

\* A path joins two users of the graph.
PathExists(g, a, b) ==
    /\ a \in DOMAIN g
    /\ b \in DOMAIN g
    /\ b \in Component(g, {a})

\* The length of a shortest path from a to b, when there is one.
HopCount(g, a, b) ==
    CHOOSE n \in 0..Cardinality(DOMAIN g) :
        /\ b \in Within(g, a, n)
        /\ \A m \in 0..(n - 1) : b \notin Within(g, a, m)

\* The friends of u that are connected to c.
Intermediates(g, u, c) == {f \in getFriends(g, u) : c \in getFriends(g, f)}

Returned(op) == ret.op = op /\ ret.outcome = "returned"

(***************************************************************************)
(* Properties                                                              *)
(***************************************************************************)

\* Every identifier the graph or the free client mentions.
Mentioned == Ids \cup DOMAIN graph \cup UNION {graph[u] : u \in DOMAIN graph}

\* C1: after any sequence of addUser, addConnection and removeConnection
\* calls the graph is symmetric: b is in getFriends(a) exactly when a is in
\* getFriends(b).
C1_Symmetry ==
    \A a, b \in Mentioned :
        b \in getFriends(graph, a) <=> a \in getFriends(graph, b)

\* A removeConnection call that took a connection away and left another one.
C1_Witness ==
    /\ ret.op = "removeConnection"
    /\ graph /= ret.pre
    /\ \E a, b \in DOMAIN graph : a /= b /\ b \in graph[a]

\* C2: every pair recommendByNetworkDistance(u, maxDistance) returns has a
\* distance of at most maxDistance; for the chain 1-2, 2-3, 3-4 the call
\* recommendByNetworkDistance(1, 2) returns exactly (3, 2).
C2_WithinMaxDistance ==
    Returned("recommendByNetworkDistance") =>
        /\ \A j \in 1..Len(ret.val) : ret.val[j][2] <= ret.b
        /\ (pc /= "api" /\ input.connections = chainConnections
                /\ ret.a = 1 /\ ret.b = 2)
               => ret.val = <<<<3, 2>>>>

\* C3: recommendByCommonFriends(u) never returns u itself nor a direct
\* friend of u, self-loops included.
C3_Exclusion ==
    Returned("recommendByCommonFriends") =>
        \A j \in 1..Len(ret.val) :
            /\ ret.val[j][1] /= ret.a
            /\ ret.val[j][1] \notin getFriends(graph, ret.a)

\* A call for a user that is its own friend, returning some candidate.
C3_Witness ==
    /\ Returned("recommendByCommonFriends")
    /\ ret.a \in getFriends(graph, ret.a)
    /\ Len(ret.val) >= 1

\* C4: recommendByCommonFriends(u) pairs each candidate with the number of
\* u's friends connected to it, which is at least 1, in non-increasing order
\* of that number; for the edges 1-2, 1-3, 2-4, 3-4, 3-5, 4-5, 4-6 the call
\* for user 1 ranks (4, 2) above (5, 1).
C4_CountsAndOrder ==
    Returned("recommendByCommonFriends") =>
        /\ \A j \in 1..Len(ret.val) :
               /\ ret.val[j][2] = Cardinality(Intermediates(graph, ret.a, ret.val[j][1]))
               /\ ret.val[j][2] >= 1
        /\ \A j, k \in 1..Len(ret.val) : j < k => ret.val[j][2] >= ret.val[k][2]
        /\ (pc /= "api" /\ input.connections = sourceConnections /\ ret.a = 1)
               => \E j, k \in 1..Len(ret.val) :
                      j < k /\ ret.val[j] = <<4, 2>> /\ ret.val[k] = <<5, 1>>

\* The call for user 1 on the graph of the seven edges.
C4_Witness ==
    /\ Returned("recommendByCommonFriends")
    /\ pc /= "api"
    /\ input.connections = sourceConnections
    /\ ret.a = 1
    /\ Len(ret.val) = 2

\* C5: getNetworkDistance(a, b) returns the maximum int whenever no path
\* joins a and b, which includes every pair with an unknown a or b, equal
\* or not; otherwise it returns the shortest-path hop count.
C5_SentinelOrHopCount ==
    Returned("getNetworkDistance") =>
        ret.val = IF PathExists(graph, ret.a, ret.b)
                  THEN HopCount(graph, ret.a, ret.b)
                  ELSE INT_MAX

\* C6: every candidate g of advancedRecommendation(u, maxDistance) carries
\* the non-negative score trunc(k * (2 * c + 1 / (d + 1))), with k the number
\* of friends of u through which g is reached, c the number of common
\* friends of u and g, and d the shortest-path distance from u to g.
C6_ExactScore ==
    ret.op = "advancedRecommendation" =>
        /\ ret.outcome = "returned"
        /\ \A j \in 1..Len(ret.val) :
               LET c == ret.val[j][1]
                   k == Cardinality(Intermediates(graph, ret.a, c))
                   common == Cardinality(getFriends(graph, ret.a)
                                         \cap getFriends(graph, c))
                   d == HopCount(graph, ret.a, c)
               IN  /\ PathExists(graph, ret.a, c)
                   /\ ret.val[j][2] >= 0
                   /\ ret.val[j][2] = (k * (2 * common * (d + 1) + 1)) \div (d + 1)

\* C7: removeConnection(a, b) with an unknown a or b leaves the graph as it
\* was: the same users, the same neighbour sets, the same getTotalUsers().
C7_RemoveUnknownIsNoOp ==
    (ret.op = "removeConnection"
        /\ (ret.a \notin DOMAIN ret.pre \/ ret.b \notin DOMAIN ret.pre))
    => /\ graph = ret.pre
       /\ getTotalUsers(graph) = getTotalUsers(ret.pre)

\* removeConnection between a user that has friends and an unknown one.
C7_Witness ==
    /\ ret.op = "removeConnection"
    /\ ret.a \in DOMAIN ret.pre
    /\ ret.pre[ret.a] /= {}
    /\ ret.b \notin DOMAIN ret.pre

\* C8: on every graph, the fresh engine with getTotalUsers() = 0 included,
\* the three recommendation queries for an unknown user return an empty
\* sequence, raise nothing and do not add the user to the graph.
C8_UnknownUserEmpty ==
    /\ (ret.op \in {"recommendByCommonFriends", "recommendByNetworkDistance",
                    "advancedRecommendation"}
           /\ ret.a \notin DOMAIN ret.pre)
       => /\ ret.outcome = "returned"
          /\ ret.val = <<>>
          /\ graph = ret.pre
    /\ (ret.op = "getTotalUsers" /\ ret.pre = EmptyGraph) => ret.val = 0

\* recommendByNetworkDistance for an unknown user on a graph with a
\* connection in it, with a positive maxDistance.
C8_Witness ==
    /\ ret.op = "recommendByNetworkDistance"
    /\ ret.a \notin DOMAIN graph
    /\ ret.b >= 1
    /\ \E u \in DOMAIN graph : graph[u] /= {}

\* C9: every user g other than u and u's direct friends whose shortest-path
\* distance d from u is at most maxDistance appears exactly once in
\* recommendByNetworkDistance(u, maxDistance), paired with d; every pair
\* returned carries the shortest-path distance of its candidate; the result
\* is in non-decreasing order of distance.
C9_AllWithinBoundListed ==
    Returned("recommendByNetworkDistance") =>
        /\ \A g \in DOMAIN graph :
               (/\ g /= ret.a
                /\ g \notin getFriends(graph, ret.a)
                /\ PathExists(graph, ret.a, g)
                /\ HopCount(graph, ret.a, g) <= ret.b)
               => Cardinality({j \in 1..Len(ret.val) : ret.val[j][1] = g}) = 1
        /\ \A j \in 1..Len(ret.val) :
               /\ PathExists(graph, ret.a, ret.val[j][1])
               /\ ret.val[j][2] = HopCount(graph, ret.a, ret.val[j][1])
        /\ \A j, k \in 1..Len(ret.val) : j < k => ret.val[j][2] <= ret.val[k][2]

\* A call that lists a user at distance 2 with maxDistance at least 2.
C9_Witness ==
    /\ Returned("recommendByNetworkDistance")
    /\ ret.b >= 2
    /\ \E j \in 1..Len(ret.val) : ret.val[j][2] = 2

\* C10: in advancedRecommendation(u, maxDistance) the call
\* getNetworkDistance(u, g) returns exactly 2 for every candidate g that
\* passes the exclusion test, never the maximum int, so networkDistance + 1
\* never overflows.
C10_CandidateDistanceIsTwo ==
    ret.op = "advancedRecommendation" =>
        /\ ret.outcome = "returned"
        /\ \A e \in encounters(graph, ret.a) :
               /\ getNetworkDistance(graph, ret.a, e[2]) = 2
               /\ getNetworkDistance(graph, ret.a, e[2]) + 1 <= INT_MAX

\* A call that scored at least one candidate.
C10_Witness ==
    /\ Returned("advancedRecommendation")
    /\ encounters(graph, ret.a) /= {}
    /\ Len(ret.val) >= 1

====
